---- MODULE Spec2Model ----
(***************************************************************************)
(* Two tutorial documents of the repository, modelled as sequential        *)
(* scripts:                                                                *)
(*   "nested"    - Nested Versus Non-Nested Cross-Validation.ipynb         *)
(*   "cvpredict" - the Cross Validated Predictions page (unnamed/part_000) *)
(* The scikit-learn calls are modelled by what scikit-learn 0.18.1 (the    *)
(* version the notebook prints) does with its arguments; the values that   *)
(* depend on the data (which samples a fitted estimator classifies         *)
(* correctly) are an input chosen in Init.                                 *)
(***************************************************************************)
EXTENDS Integers, Sequences, FiniteSets, TLC

VARIABLES
    doc,                \* which document is being run
    pc,                 \* position of control in the script
    n_samples,          \* number of rows of the loaded dataset
    data_id,            \* identifies the contents of the loaded dataset
    loaded,             \* the dataset has been loaded
    i,                  \* trial loop variable
    non_nested_scores,  \* array of NUM_TRIALS scores
    nested_scores,      \* array of NUM_TRIALS scores
    score_difference,   \* array of NUM_TRIALS scores, <<>> before line 149
    clf,                \* the fitted GridSearchCV object (cv_results_, best_*)
    outer_folds,        \* what cross_val_score did on each outer fold
    nested_score,       \* the array cross_val_score returned
    predicted,          \* cross_val_predict's result
    fig,                \* the figure's traces
    net_ops,            \* network operations performed so far
    writes,             \* per array and entry: number of score assignments
    reads,              \* per array: the statements that have read it
    steps,              \* the statements executed so far, in order
    failed_at           \* the statement whose library call raised, or "none"

vars == <<doc, pc, n_samples, data_id, loaded, i, non_nested_scores,
          nested_scores, score_difference, clf, outer_folds, nested_score,
          predicted, fig, net_ops, writes, reads, steps, failed_at>>

----------------------------------------------------------------------------
(* Bounds of the model and constants of the program. *)

\* dataset sizes tried for the notebook (iris has 150 rows)
MinSamples == 5
MaxSamples == 9
\* number of dataset contents tried
NumDatasets == 4
\* dataset sizes tried for the cv-predict page (boston has 506 rows)
MinRows == 9
MaxRows == 12

NUM_TRIALS == 30
n_splits == 4
n_folds == 10
\* rows of the dataset load_iris() returns
IrisRows == 150

----------------------------------------------------------------------------
(* Scores are exact fractions <<numerator, denominator>> in lowest terms. *)

RECURSIVE Gcd(_, _)
Gcd(a, b) == IF b = 0 THEN a ELSE Gcd(b, a % b)

Abs(a) == IF a < 0 THEN -a ELSE a

Frac(num, den) ==
    LET g == Gcd(Abs(num), den) IN <<num \div g, den \div g>>

Zero == Frac(0, 1)

RAdd(a, b) == Frac(a[1] * b[2] + b[1] * a[2], a[2] * b[2])

\* the difference with the operands exchanged
RSubReversed(a, b) == Frac(b[1] * a[2] - a[1] * b[2], a[2] * b[2])

RSub(a, b) == Frac(a[1] * b[2] - b[1] * a[2], a[2] * b[2])
RDiv(a, k) == Frac(a[1], a[2] * k)
RLe(a, b) == a[1] * b[2] <= b[1] * a[2]
RLt(a, b) == a[1] * b[2] < b[1] * a[2]

RECURSIVE RSum(_)
RSum(s) == IF s = <<>> THEN Zero ELSE RAdd(Head(s), RSum(Tail(s)))

RECURSIVE ISum(_)
ISum(s) == IF s = <<>> THEN 0 ELSE Head(s) + ISum(Tail(s))

\* the sum instead of the mean
MeanAsSum(s) == RSum(s)

\* numpy's ndarray.mean(): the arithmetic mean of the entries
Mean(s) == RDiv(RSum(s), Len(s))

Zeros(k) == [j \in 0..(k - 1) |-> Zero]

----------------------------------------------------------------------------
(* KFold *)

\* the q-th smallest element of S: row q of X[S]
Nth(S, q) == CHOOSE x \in S : Cardinality({y \in S : y < x}) = q - 1

Min2(a, b) == IF a < b THEN a ELSE b

\* a fold size that drops the remainder m % k
FoldSizeNoRemainder(m, k, f) == m \div k

\* KFold._iter_test_indices: the first m % k folds have size m // k + 1,
\* the others m // k
FoldSize(m, k, f) == (m \div k) + (IF f <= m % k THEN 1 ELSE 0)
FoldStart(m, k, f) == (f - 1) * (m \div k) + Min2(f - 1, m % k)

\* MT19937 as numpy seeds it for RandomState(seed), seed = 0..29 (row seed + 1):
\* the four low bits of its first 32 outputs, the only bits rk_interval keeps
\* when it draws an index below 16
rk_random_low_bits ==
    << <<12, 15, 5, 0, 3, 11, 3, 7, 9, 3, 5, 2, 4, 7, 6, 8, 8, 12, 10, 1, 6, 7, 7, 14, 8, 1, 5, 9, 13, 8, 9, 4>>,
       <<5, 11, 12, 8, 15, 9, 11, 5, 15, 0, 0, 1, 12, 7, 13, 12, 6, 9, 2, 4, 14, 5, 2, 4, 11, 12, 10, 12, 13, 14, 2, 4>>,
       <<8, 15, 13, 8, 6, 11, 2, 11, 8, 7, 2, 1, 15, 11, 5, 15, 15, 15, 10, 4, 12, 4, 5, 7, 3, 6, 4, 10, 11, 3, 7, 6>>,
       <<10, 8, 9, 3, 8, 8, 0, 5, 13, 3, 10, 11, 9, 9, 10, 5, 7, 6, 0, 4, 12, 13, 7, 14, 8, 10, 1, 10, 6, 2, 2, 15>>,
       <<10, 14, 7, 5, 1, 8, 7, 8, 2, 9, 10, 12, 7, 13, 14, 7, 7, 9, 8, 4, 2, 12, 6, 14, 10, 4, 3, 0, 7, 5, 5, 9>>,
       <<3, 14, 15, 13, 6, 6, 0, 9, 8, 4, 7, 14, 11, 0, 14, 0, 7, 12, 15, 1, 5, 7, 0, 11, 12, 13, 11, 1, 15, 14, 4, 6>>,
       <<10, 9, 3, 4, 10, 13, 15, 10, 0, 14, 9, 1, 11, 13, 9, 10, 15, 1, 12, 14, 4, 1, 8, 2, 12, 4, 11, 15, 2, 5, 13, 10>>,
       <<15, 4, 9, 6, 3, 3, 7, 7, 12, 9, 14, 7, 8, 9, 14, 10, 10, 8, 7, 6, 4, 0, 15, 7, 12, 0, 11, 7, 10, 6, 3, 12>>,
       <<3, 4, 1, 9, 5, 10, 8, 3, 8, 15, 0, 13, 5, 12, 1, 3, 10, 11, 12, 13, 9, 13, 15, 13, 2, 11, 2, 14, 6, 13, 8, 9>>,
       <<14, 12, 14, 5, 6, 8, 11, 6, 13, 1, 6, 4, 11, 8, 10, 1, 8, 5, 11, 1, 13, 12, 0, 12, 14, 11, 8, 10, 8, 13, 14, 10>>,
       <<9, 13, 4, 15, 0, 1, 11, 12, 9, 13, 0, 13, 1, 10, 8, 9, 0, 10, 8, 6, 4, 3, 0, 4, 15, 11, 6, 8, 11, 10, 14, 1>>,
       <<9, 15, 0, 11, 1, 7, 13, 12, 1, 7, 2, 8, 13, 12, 0, 13, 0, 13, 12, 13, 4, 2, 12, 1, 10, 5, 5, 7, 4, 1, 11, 8>>,
       <<11, 11, 6, 13, 1, 2, 3, 3, 12, 0, 6, 1, 4, 5, 13, 9, 2, 11, 6, 10, 0, 5, 8, 12, 13, 2, 9, 3, 14, 4, 3, 1>>,
       <<2, 0, 10, 0, 6, 2, 4, 9, 12, 10, 3, 10, 4, 14, 2, 14, 6, 5, 13, 10, 9, 11, 4, 2, 0, 3, 5, 3, 11, 6, 5, 11>>,
       <<11, 8, 12, 6, 7, 9, 6, 10, 12, 10, 0, 13, 8, 13, 10, 9, 7, 6, 11, 0, 7, 4, 13, 10, 10, 0, 6, 4, 5, 5, 8, 5>>,
       <<8, 5, 12, 5, 7, 0, 12, 11, 7, 11, 5, 6, 15, 13, 1, 13, 15, 7, 0, 14, 10, 15, 4, 9, 7, 5, 3, 12, 13, 12, 13, 15>>,
       <<9, 14, 9, 5, 1, 11, 4, 13, 15, 4, 9, 0, 0, 14, 8, 10, 14, 2, 4, 0, 1, 15, 10, 2, 4, 14, 13, 13, 0, 5, 12, 12>>,
       <<15, 1, 15, 6, 6, 9, 0, 13, 6, 15, 4, 7, 4, 12, 7, 1, 14, 1, 9, 8, 10, 2, 3, 15, 6, 11, 6, 11, 9, 9, 14, 1>>,
       <<10, 3, 8, 5, 14, 1, 14, 2, 2, 8, 8, 2, 1, 5, 5, 15, 14, 10, 10, 4, 5, 11, 15, 7, 4, 4, 11, 1, 3, 9, 5, 14>>,
       <<13, 14, 5, 2, 8, 3, 4, 10, 15, 2, 8, 6, 2, 5, 1, 10, 6, 2, 12, 7, 15, 7, 0, 7, 7, 9, 11, 9, 4, 5, 5, 7>>,
       <<3, 10, 15, 15, 12, 10, 9, 4, 11, 6, 7, 2, 0, 6, 8, 5, 10, 10, 11, 3, 0, 13, 6, 6, 14, 0, 9, 5, 7, 5, 15, 2>>,
       <<9, 15, 8, 4, 0, 0, 8, 3, 12, 2, 15, 1, 10, 8, 14, 15, 12, 13, 13, 9, 13, 6, 10, 0, 14, 4, 6, 4, 11, 4, 7, 12>>,
       <<5, 4, 12, 0, 4, 6, 6, 11, 4, 8, 15, 4, 13, 2, 14, 12, 13, 8, 10, 13, 7, 2, 9, 15, 8, 8, 5, 15, 11, 4, 2, 13>>,
       <<3, 6, 8, 9, 6, 8, 15, 13, 12, 11, 7, 10, 9, 3, 6, 11, 13, 12, 1, 2, 11, 5, 5, 0, 12, 5, 0, 9, 15, 10, 14, 9>>,
       <<2, 3, 0, 7, 1, 1, 1, 4, 11, 15, 4, 15, 3, 2, 11, 11, 3, 3, 15, 7, 9, 2, 7, 7, 9, 3, 13, 15, 12, 0, 14, 12>>,
       <<4, 14, 10, 15, 13, 6, 15, 7, 12, 2, 13, 8, 12, 4, 9, 13, 15, 4, 5, 1, 7, 3, 8, 7, 3, 4, 13, 3, 1, 6, 15, 0>>,
       <<5, 14, 6, 0, 1, 6, 3, 13, 10, 0, 4, 2, 13, 1, 7, 3, 5, 9, 4, 14, 8, 5, 14, 15, 10, 14, 7, 6, 15, 11, 8, 2>>,
       <<3, 8, 8, 15, 8, 0, 5, 8, 9, 13, 1, 2, 15, 15, 10, 1, 14, 10, 1, 4, 14, 6, 15, 3, 15, 15, 3, 10, 0, 5, 3, 12>>,
       <<1, 9, 5, 6, 4, 0, 3, 7, 12, 0, 3, 7, 12, 12, 5, 8, 8, 14, 2, 11, 12, 8, 7, 1, 6, 14, 13, 12, 2, 3, 0, 12>>,
       <<5, 3, 12, 13, 2, 8, 0, 9, 1, 8, 5, 3, 1, 14, 14, 8, 1, 11, 11, 5, 4, 14, 7, 0, 4, 2, 15, 6, 7, 15, 10, 3>> >>

\* rk_interval's mask: the smallest 2^b - 1 that is >= max
Mask(max) ==
    CHOOSE k \in {0, 1, 3, 7, 15} :
        k >= max /\ \A e \in {0, 1, 3, 7, 15} : e >= max => k <= e

\* rk_interval(max, state): the next output masked, redrawn while it exceeds
\* max; pos is the place reached in the generator's output
RECURSIVE rk_interval(_, _, _)
rk_interval(max, stream, pos) ==
    IF max = 0 THEN [value |-> 0, pos |-> pos]
    ELSE LET v == stream[pos] % (Mask(max) + 1)
         IN IF v <= max THEN [value |-> v, pos |-> pos + 1]
            ELSE rk_interval(max, stream, pos + 1)

\* RandomState.shuffle(x): for k = len(x) - 1 down to 1, j = rk_interval(k)
\* and x[k], x[j] are exchanged
RECURSIVE ShuffleFrom(_, _, _, _)
ShuffleFrom(x, k, stream, pos) ==
    IF k < 1 THEN x
    ELSE LET d == rk_interval(k, stream, pos)
         IN ShuffleFrom([x EXCEPT ![k] = x[d.value], ![d.value] = x[k]],
                        k - 1, stream, d.pos)

\* RandomState(seed).shuffle(arange(m)): the permutation of the positions 1..m
\* that KFold(shuffle=True, random_state=seed) cuts into folds
Shuffle(seed, m) ==
    LET x == ShuffleFrom([q \in 0..(m - 1) |-> q], m - 1,
                         rk_random_low_bits[seed + 1], 1)
    IN [p \in 1..m |-> x[p - 1] + 1]

Identity(m) == [p \in 1..m |-> p]

\* positions of the f-th test fold of KFold(k, shuffle, random_state=seed)
\* over m rows
TestPositions(m, k, f, shuffle, seed) ==
    LET perm == IF shuffle THEN Shuffle(seed, m) ELSE Identity(m)
    IN {perm[p] : p \in (FoldStart(m, k, f) + 1)..(FoldStart(m, k, f) + FoldSize(m, k, f))}

\* KFold.split(X[S]): the k (train, test) pairs, as sets of samples of S
KFoldSplit(S, k, shuffle, seed) ==
    LET m == Cardinality(S)
    IN [f \in 1..k |->
          LET test == {Nth(S, q) : q \in TestPositions(m, k, f, shuffle, seed)}
          IN [train |-> S \ test, test |-> test]]

----------------------------------------------------------------------------
(* Estimator, grid search and cross-validated scoring *)

C_values == <<1, 10, 100>>
\* gamma in hundredths: .01 and .1
gamma_values == <<1, 10>>

\* ParameterGrid(p_grid): keys sorted, the last key varying fastest
ParameterGrid ==
    [c \in 1..(Len(C_values) * Len(gamma_values)) |->
        [C     |-> C_values[((c - 1) \div Len(gamma_values)) + 1],
         gamma |-> gamma_values[((c - 1) % Len(gamma_values)) + 1]]]

SumSet(S) == ISum([q \in 1..Cardinality(S) |-> Nth(S, q)])

\* Whether SVC(kernel="rbf", C, gamma) fitted on the rows `train` of dataset d
\* predicts row x correctly: fixed by (dataset, parameters, training rows, row)
Correct(d, p, train, x) ==
    ((d + 1) * x + p.C * SumSet(train) + p.gamma * (x + d)) % 7 < 5

\* estimator.score(X[test], y[test]): accuracy, as <<correct, size>>
Accuracy(d, p, train, test) ==
    Frac(Cardinality({x \in test : Correct(d, p, train, x)}), Cardinality(test))

\* np.average(scores, weights): sum(score * weight) / sum(weight)
WeightedMean(scores, weights) ==
    RDiv(RSum([f \in 1..Len(scores) |->
                  Frac(scores[f][1] * weights[f], scores[f][2])]),
         ISum(weights))

\* the plain average of the split scores, as with iid=False
MeanTestScoreUnweighted(scores, sizes) == RDiv(RSum(scores), Len(scores))

\* GridSearchCV's mean_test_score of one candidate; iid=True (the default in
\* 0.18.1) weights each split by its test size
MeanTestScore(scores, sizes) == WeightedMean(scores, sizes)

\* taking the first candidate instead of the best
BestIndexFirst(means) == CHOOSE c \in DOMAIN means : \A e \in DOMAIN means : c <= e

\* rank_test_score == 1, first candidate: the lowest index with the highest mean
BestIndex(means) ==
    CHOOSE c \in DOMAIN means :
        /\ \A e \in DOMAIN means : RLe(means[e], means[c])
        /\ \A e \in DOMAIN means : e < c => RLt(means[e], means[c])

\* KFold.split raises ValueError when there are fewer rows than splits
CanSplit(S, k) == Cardinality(S) >= k

\* GridSearchCV(estimator=svr, param_grid=p_grid, cv=KFold(4, True, seed)).fit(X[S], y[S])
GridSearchCV_fit(d, S, seed) ==
    LET folds == KFoldSplit(S, n_splits, TRUE, seed)
        sizes == [f \in 1..n_splits |-> Cardinality(folds[f].test)]
        split == [c \in DOMAIN ParameterGrid |->
                    [f \in 1..n_splits |->
                        Accuracy(d, ParameterGrid[c], folds[f].train, folds[f].test)]]
        means == [c \in DOMAIN ParameterGrid |-> MeanTestScore(split[c], sizes)]
        best  == BestIndex(means)
    IN [fitted_on        |-> S,
        folds            |-> folds,
        test_sizes       |-> sizes,
        split_test_score |-> split,
        mean_test_score  |-> means,
        best_index_      |-> best,
        best_params_     |-> ParameterGrid[best],
        best_score_      |-> means[best]]

\* fitting the clone on every row, test rows included
FitRowsAll(fold) == fold.train \cup fold.test

\* the rows an estimator passed to cross_val_score is fitted on for a fold
FitRows(fold) == fold.train

\* cross_val_score(clf, X, y, cv=KFold(4, True, seed)): per outer fold, a clone
\* of clf is fitted on the training rows and scored on the test rows
cross_val_score(d, S, seed) ==
    LET outer == KFoldSplit(S, n_splits, TRUE, seed)
    IN [f \in 1..n_splits |->
          LET search == GridSearchCV_fit(d, FitRows(outer[f]), seed)
          IN [train  |-> outer[f].train,
              test   |-> outer[f].test,
              search |-> search,
              score  |-> Accuracy(d, search.best_params_, search.fitted_on, outer[f].test)]]

----------------------------------------------------------------------------
(* cross_val_predict *)

\* the prediction for row x made by the estimator fitted without fold f
Prediction(x, f) == [row |-> x, fold |-> f]

RECURSIVE Concat(_)
Concat(ss) == IF ss = <<>> THEN <<>> ELSE Head(ss) \o Concat(Tail(ss))

\* the rows of S in increasing order: X[S]
Rows(S) == [q \in 1..Cardinality(S) |-> Nth(S, q)]

\* cross_val_predict(lr, X, y, cv=k): KFold(m, k) without shuffling; the
\* per-fold predictions are concatenated in fold order and put back in row
\* order through inv_locs
TestLocs(m, k) ==
    LET folds == KFoldSplit(1..m, k, FALSE, 0)
    IN Concat([f \in 1..k |-> Rows(folds[f].test)])

\* _check_is_permutation(locs, m)
IsPermutation(locs, m) ==
    Len(locs) = m /\ {locs[q] : q \in 1..Len(locs)} = 1..m

cross_val_predict(m, k) ==
    LET folds  == KFoldSplit(1..m, k, FALSE, 0)
        locs   == TestLocs(m, k)
        preds  == Concat([f \in 1..k |->
                     [q \in 1..Cardinality(folds[f].test) |->
                         Prediction(Nth(folds[f].test, q), f)]])
        inv_locs == [x \in 1..Len(locs) |-> CHOOSE q \in 1..Len(locs) : locs[q] = x]
    IN [x \in 1..Len(locs) |-> preds[inv_locs[x]]]

\* boston.target: one entry per row
Target(m) == [x \in 1..m |-> [row |-> x]]

----------------------------------------------------------------------------
(* Control flow of the two scripts *)

Stmt(name, trial) == [stmt |-> name, trial |-> trial]

\* the statements of the loop body
InLoop == {"clf", "search", "nested"}

\* a loop that runs one trial too many
LoopHasNextOffByOne(t) == t + 1 <= NUM_TRIALS

\* for i in range(NUM_TRIALS): there is a next trial after trial t
LoopHasNext(t) == t + 1 < NUM_TRIALS

\* the chart rendered before the figure is built
SuccessorRenderFirst(d, s) ==
    IF d = "nested"
    THEN CASE s = "load"                   -> "svr"
           [] s = "svr"                    -> "non_nested_zeros"
           [] s = "non_nested_zeros"       -> "nested_zeros"
           [] s = "nested_zeros"           -> "for"
           [] s = "clf"                    -> "search"
           [] s = "search"                 -> "nested"
           [] s = "nested"                 -> "for"
           [] s = "diff"                   -> "print"
           [] s = "print"                  -> "iplot"
           [] s = "iplot"                  -> "subplots"
           [] s = "subplots"               -> "non_nested_scores_line"
           [] s = "non_nested_scores_line" -> "append1"
           [] s = "append1"                -> "nested_line"
           [] s = "nested_line"            -> "append2"
           [] s = "append2"                -> "layout"
           [] s = "layout"                 -> "difference_plot"
           [] s = "difference_plot"        -> "append3"
           [] s = "append3"                -> "axes"
           [] s = "axes"                   -> "display"
           [] s = "display"                -> "pip"
           [] s = "pip"                    -> "publish"
           [] s = "publish"                -> "done"
    ELSE CASE s = "load"    -> "predict"
           [] s = "predict" -> "iplot"
           [] s = "iplot"   -> "traces"
           [] s = "traces"  -> "done"

\* the statement that follows a straight-line statement of a document
Successor(d, s) ==
    IF d = "nested"
    THEN CASE s = "load"                   -> "svr"
           [] s = "svr"                    -> "non_nested_zeros"
           [] s = "non_nested_zeros"       -> "nested_zeros"
           [] s = "nested_zeros"           -> "for"
           [] s = "clf"                    -> "search"
           [] s = "search"                 -> "nested"
           [] s = "nested"                 -> "for"
           [] s = "diff"                   -> "print"
           [] s = "print"                  -> "subplots"
           [] s = "subplots"               -> "non_nested_scores_line"
           [] s = "non_nested_scores_line" -> "append1"
           [] s = "append1"                -> "nested_line"
           [] s = "nested_line"            -> "append2"
           [] s = "append2"                -> "layout"
           [] s = "layout"                 -> "difference_plot"
           [] s = "difference_plot"        -> "append3"
           [] s = "append3"                -> "axes"
           [] s = "axes"                   -> "iplot"
           [] s = "iplot"                  -> "display"
           [] s = "display"                -> "pip"
           [] s = "pip"                    -> "publish"
           [] s = "publish"                -> "done"
    ELSE CASE s = "load"    -> "predict"
           [] s = "predict" -> "traces"
           [] s = "traces"  -> "iplot"
           [] s = "iplot"   -> "done"

\* a dataset loader that downloads the data
NetworkOpsLoaderFetches(d, s) ==
    IF s = "load" THEN <<"download">>
    ELSE IF s = "iplot" THEN <<"plotly">>
    ELSE IF d = "nested" /\ s = "pip" THEN <<"pip">>
    ELSE <<>>

\* the network operations a statement performs
NetworkOps(d, s) ==
    IF s = "iplot" THEN <<"plotly">>
    ELSE IF d = "nested" /\ s = "pip" THEN <<"pip">>
    ELSE <<>>

ScoreArrays == {"non_nested_scores", "nested_scores", "score_difference"}

\* a Plot Results cell that never plots the difference
ArraysReadNoBar(s) ==
    CASE s = "diff"   -> {<<"non_nested_scores", "score_difference =">>,
                          <<"nested_scores", "score_difference =">>}
      [] s = "print"  -> {<<"score_difference", "print">>}
      [] s = "non_nested_scores_line" ->
                         {<<"non_nested_scores", "non_nested_scores_line =">>}
      [] s = "nested_line" -> {<<"nested_scores", "nested_line =">>}
      [] OTHER        -> {}

\* the score arrays a statement of the notebook reads, each with the statement
\* that reads it
ArraysRead(s) ==
    CASE s = "diff"   -> {<<"non_nested_scores", "score_difference =">>,
                          <<"nested_scores", "score_difference =">>}
      [] s = "print"  -> {<<"score_difference", "print">>}
      [] s = "non_nested_scores_line" ->
                         {<<"non_nested_scores", "non_nested_scores_line =">>}
      [] s = "nested_line" -> {<<"nested_scores", "nested_line =">>}
      [] s = "difference_plot" -> {<<"score_difference", "difference_plot =">>}
      [] OTHER        -> {}

NoteReads(s) ==
    [a \in ScoreArrays |-> reads[a] \cup {r[2] : r \in {q \in ArraysRead(s) : q[1] = a}}]

NoteWrite(a, j) == [writes EXCEPT ![a][j] = @ + 1]

NoteWriteAll(a) == [writes EXCEPT ![a] = [j \in DOMAIN @ |-> @[j] + 1]]

Init ==
    /\ doc \in {"nested", "cvpredict"}
    /\ IF doc = "nested"
       THEN n_samples \in MinSamples..MaxSamples /\ data_id \in 0..(NumDatasets - 1)
       ELSE n_samples \in MinRows..MaxRows /\ data_id = 0
    /\ pc = "load"
    /\ loaded = FALSE
    /\ i = -1
    /\ non_nested_scores = <<>>
    /\ nested_scores = <<>>
    /\ score_difference = <<>>
    /\ clf = <<>>
    /\ outer_folds = <<>>
    /\ nested_score = <<>>
    /\ predicted = <<>>
    /\ fig = <<>>
    /\ net_ops = <<>>
    /\ writes = [a \in ScoreArrays |-> [j \in 0..(NUM_TRIALS - 1) |-> 0]]
    /\ reads = [a \in ScoreArrays |-> {}]
    /\ steps = <<>>
    /\ failed_at = "none"

\* A statement completes: control moves on and its effects on the log of
\* statements, array reads and network operations are recorded
Advance(s) ==
    /\ pc' = Successor(doc, s)
    /\ steps' = Append(steps, Stmt(s, IF s \in InLoop THEN i ELSE -1))
    /\ reads' = IF doc = "nested" THEN NoteReads(s) ELSE reads
    /\ net_ops' = net_ops \o NetworkOps(doc, s)
    /\ failed_at' = failed_at

\* an exception swallowed, the script carrying on with the next statement
PropagateSwallowed(s) ==
    /\ pc' = Successor(doc, s)
    /\ failed_at' = s
    /\ steps' = Append(steps, Stmt(s, IF s \in InLoop THEN i ELSE -1))

\* A library call of statement s raises: nothing catches it, the run stops
Propagate(s) ==
    /\ pc' = "error"
    /\ failed_at' = s
    /\ steps' = Append(steps, Stmt(s, IF s \in InLoop THEN i ELSE -1))

\* The statement s stops on an exception: no name is bound and no array
\* entry assigned by it; a call that talks to the network may have sent its
\* request before it raised
Raise(s) ==
    /\ Propagate(s)
    /\ net_ops' \in {net_ops, net_ops \o NetworkOps(doc, s)}
    /\ UNCHANGED <<doc, n_samples, data_id, loaded, i, non_nested_scores,
                   nested_scores, score_difference, clf, outer_folds,
                   nested_score, predicted, fig, writes, reads>>

----------------------------------------------------------------------------
(* The notebook: Nested Versus Non-Nested Cross-Validation *)

\* GridSearchCV(estimator=svr, param_grid=p_grid, cv=inner_cv) before fit,
\* inner_cv = KFold(n_splits=4, shuffle=True, random_state=seed)
GridSearchCV(seed) ==
    [cv |-> [n_splits |-> n_splits, shuffle |-> TRUE, random_state |-> seed]]

\* tools.make_subplots(rows=2, cols=1): a figure without traces
make_subplots == [data |-> <<>>]

\* fig.append_trace(trace, row, col)
append_trace(f, trace) == [f EXCEPT !.data = Append(@, trace)]

\* range(k)
range(k) == [j \in 0..(k - 1) |-> j]

\* a statement of the notebook that binds or changes none of the tracked names
N_Plain(s) ==
    /\ doc = "nested" /\ pc = s
    /\ Advance(s)
    /\ UNCHANGED <<doc, n_samples, data_id, loaded, i, non_nested_scores,
                   nested_scores, score_difference, clf, outer_folds,
                   nested_score, predicted, fig, writes>>

\* fig.append_trace of the trace the preceding statement built
N_Append(s, trace) ==
    /\ doc = "nested" /\ pc = s
    /\ fig' = append_trace(fig, trace)
    /\ Advance(s)
    /\ UNCHANGED <<doc, n_samples, data_id, loaded, i, non_nested_scores,
                   nested_scores, score_difference, clf, outer_folds,
                   nested_score, predicted, writes>>

\* NUM_TRIALS = 30, iris = load_iris(), X_iris, y_iris
N_Load ==
    /\ doc = "nested" /\ pc = "load"
    /\ loaded' = TRUE
    /\ Advance("load")
    /\ UNCHANGED <<doc, n_samples, data_id, i, non_nested_scores,
                   nested_scores, score_difference, clf, outer_folds,
                   nested_score, predicted, fig, writes>>

\* p_grid = {...}, svr = SVC(kernel="rbf")
N_Svr == N_Plain("svr")

\* non_nested_scores = np.zeros(NUM_TRIALS)
N_NonNestedZeros ==
    /\ doc = "nested" /\ pc = "non_nested_zeros"
    /\ non_nested_scores' = Zeros(NUM_TRIALS)
    /\ Advance("non_nested_zeros")
    /\ UNCHANGED <<doc, n_samples, data_id, loaded, i, nested_scores,
                   score_difference, clf, outer_folds, nested_score,
                   predicted, fig, writes>>

\* nested_scores = np.zeros(NUM_TRIALS)
N_NestedZeros ==
    /\ doc = "nested" /\ pc = "nested_zeros"
    /\ nested_scores' = Zeros(NUM_TRIALS)
    /\ Advance("nested_zeros")
    /\ UNCHANGED <<doc, n_samples, data_id, loaded, i, non_nested_scores,
                   score_difference, clf, outer_folds, nested_score,
                   predicted, fig, writes>>

\* for i in range(NUM_TRIALS)
N_For ==
    /\ doc = "nested" /\ pc = "for"
    /\ IF LoopHasNext(i)
       THEN i' = i + 1 /\ pc' = "clf"
       ELSE i' = i /\ pc' = "diff"
    /\ UNCHANGED <<doc, n_samples, data_id, loaded, non_nested_scores,
                   nested_scores, score_difference, clf, outer_folds,
                   nested_score, predicted, fig, net_ops, writes, reads,
                   steps, failed_at>>

\* inner_cv = KFold(...), outer_cv = KFold(...), clf = GridSearchCV(...)
N_Clf ==
    /\ doc = "nested" /\ pc = "clf"
    /\ clf' = GridSearchCV(i)
    /\ Advance("clf")
    /\ UNCHANGED <<doc, n_samples, data_id, loaded, i, non_nested_scores,
                   nested_scores, score_difference, outer_folds,
                   nested_score, predicted, fig, writes>>

\* clf.fit(X_iris, y_iris), non_nested_scores[i] = clf.best_score_; the KFold
\* of clf raises when the rows are fewer than n_splits
N_Search ==
    /\ doc = "nested" /\ pc = "search"
    /\ CanSplit(1..n_samples, clf.cv.n_splits)
    /\ clf' = clf @@ GridSearchCV_fit(data_id, 1..n_samples, clf.cv.random_state)
    /\ non_nested_scores' = [non_nested_scores EXCEPT ![i] = clf'.best_score_]
    /\ writes' = NoteWrite("non_nested_scores", i)
    /\ Advance("search")
    /\ UNCHANGED <<doc, n_samples, data_id, loaded, i, nested_scores,
                   score_difference, outer_folds, nested_score, predicted, fig>>

\* nested_score = cross_val_score(clf, X=X_iris, y=y_iris, cv=outer_cv),
\* nested_scores[i] = nested_score.mean(); the inner KFold of a fold raises
\* when the fold's training rows are fewer than n_splits
N_Nested ==
    /\ doc = "nested" /\ pc = "nested"
    /\ \A f \in 1..n_splits :
          CanSplit(FitRows(KFoldSplit(1..n_samples, n_splits, TRUE, i)[f]), n_splits)
    /\ outer_folds' = cross_val_score(data_id, 1..n_samples, i)
    /\ nested_score' = [f \in DOMAIN outer_folds' |-> outer_folds'[f].score]
    /\ nested_scores' = [nested_scores EXCEPT ![i] = Mean(nested_score')]
    /\ writes' = NoteWrite("nested_scores", i)
    /\ Advance("nested")
    /\ UNCHANGED <<doc, n_samples, data_id, loaded, i, non_nested_scores,
                   score_difference, clf, predicted, fig>>

\* score_difference = non_nested_scores - nested_scores
N_Diff ==
    /\ doc = "nested" /\ pc = "diff"
    /\ score_difference' =
          [j \in DOMAIN non_nested_scores |->
              RSub(non_nested_scores[j], nested_scores[j])]
    /\ writes' = NoteWriteAll("score_difference")
    /\ Advance("diff")
    /\ UNCHANGED <<doc, n_samples, data_id, loaded, i, non_nested_scores,
                   nested_scores, clf, outer_folds, nested_score, predicted, fig>>

\* print(... score_difference.mean(), score_difference.std())
N_Print == N_Plain("print")

\* fig = tools.make_subplots(rows=2, cols=1, print_grid=False)
N_Subplots ==
    /\ doc = "nested" /\ pc = "subplots"
    /\ fig' = make_subplots
    /\ Advance("subplots")
    /\ UNCHANGED <<doc, n_samples, data_id, loaded, i, non_nested_scores,
                   nested_scores, score_difference, clf, outer_folds,
                   nested_score, predicted, writes>>

\* non_nested_scores_line = go.Scatter(y=non_nested_scores, ...)
N_NonNestedScoresLine == N_Plain("non_nested_scores_line")

\* fig.append_trace(non_nested_scores_line, 1, 1)
N_Append1 ==
    N_Append("append1", [name |-> "Non-Nested CV", x |-> <<>>,
                         y |-> non_nested_scores])

\* nested_line = go.Scatter(y=nested_scores, ...)
N_NestedLine == N_Plain("nested_line")

\* fig.append_trace(nested_line, 1, 1)
N_Append2 ==
    N_Append("append2", [name |-> "Nested CV", x |-> <<>>, y |-> nested_scores])

\* fig['layout']['yaxis1'].update(...), fig['layout'].update(...)
N_Layout == N_Plain("layout")

\* difference_plot = go.Bar(x=range(NUM_TRIALS), y=score_difference, ...)
N_DifferencePlot == N_Plain("difference_plot")

\* fig.append_trace(difference_plot, 2, 1)
N_Append3 ==
    N_Append("append3", [name |-> "difference", x |-> range(NUM_TRIALS),
                         y |-> score_difference])

\* fig['layout']['xaxis2'].update(...), fig['layout']['yaxis2'].update(...)
N_Axes == N_Plain("axes")

\* py.iplot(fig)
N_IPlot == N_Plain("iplot")

\* from IPython.display import display, HTML, display(HTML(...)) twice
N_Display == N_Plain("display")

\* ! pip install git+https://github.com/plotly/publisher.git --upgrade: a
\* shell command IPython waits for; its exit status raises nothing
N_Pip == N_Plain("pip")

\* import publisher, publisher.publish(...)
N_Publish == N_Plain("publish")

----------------------------------------------------------------------------
(* The page: Cross Validated Predictions *)

\* lr = LinearRegression(), boston = load_boston(), y = boston.target
P_Load ==
    /\ doc = "cvpredict" /\ pc = "load"
    /\ loaded' = TRUE
    /\ Advance("load")
    /\ UNCHANGED <<doc, n_samples, data_id, i, non_nested_scores,
                   nested_scores, score_difference, clf, outer_folds,
                   nested_score, predicted, fig, writes>>

\* predicted = cross_val_predict(lr, boston.data, y, cv=10); KFold raises
\* ValueError when there are fewer rows than folds, cross_val_predict when the
\* test folds are not a partition of the rows
P_Predict ==
    /\ doc = "cvpredict" /\ pc = "predict"
    /\ CanSplit(1..n_samples, n_folds)
    /\ IsPermutation(TestLocs(n_samples, n_folds), n_samples)
    /\ predicted' = cross_val_predict(n_samples, n_folds)
    /\ Advance("predict")
    /\ UNCHANGED <<doc, n_samples, data_id, loaded, i, non_nested_scores,
                   nested_scores, score_difference, clf, outer_folds,
                   nested_score, fig, writes>>

\* trace1 = go.Scatter(x=y, y=predicted, ...), trace2, layout,
\* fig = go.Figure(data=[trace1, trace2], layout=layout)
P_Traces ==
    /\ doc = "cvpredict" /\ pc = "traces"
    /\ fig' = [data |-> <<[name |-> "trace1", x |-> Target(n_samples),
                           y |-> predicted],
                          [name |-> "trace2", x |-> <<"y.min", "y.max">>,
                           y |-> <<"y.min", "y.max">>]>>]
    /\ Advance("traces")
    /\ UNCHANGED <<doc, n_samples, data_id, loaded, i, non_nested_scores,
                   nested_scores, score_difference, clf, outer_folds,
                   nested_score, predicted, writes>>

\* py.iplot(fig, filename="c-v-predict")
P_IPlot ==
    /\ doc = "cvpredict" /\ pc = "iplot"
    /\ Advance("iplot")
    /\ UNCHANGED <<doc, n_samples, data_id, loaded, i, non_nested_scores,
                   nested_scores, score_difference, clf, outer_folds,
                   nested_score, predicted, fig, writes>>

----------------------------------------------------------------------------
(* Errors *)

\* the statements that call into a library that can raise
Raising ==
    {"load", "svr", "non_nested_zeros", "nested_zeros", "clf", "search",
     "nested", "subplots", "non_nested_scores_line", "append1", "nested_line",
     "append2", "layout", "difference_plot", "append3", "axes", "iplot",
     "display", "publish", "predict", "traces"}

\* a library call of the current statement raises; neither document has a
\* try statement
LibraryCallRaises ==
    /\ pc \in Raising
    /\ Raise(pc)

Next ==
    \/ N_Load
    \/ N_Svr
    \/ N_NonNestedZeros
    \/ N_NestedZeros
    \/ N_For
    \/ N_Clf
    \/ N_Search
    \/ N_Nested
    \/ N_Diff
    \/ N_Print
    \/ N_Subplots
    \/ N_NonNestedScoresLine
    \/ N_Append1
    \/ N_NestedLine
    \/ N_Append2
    \/ N_Layout
    \/ N_DifferencePlot
    \/ N_Append3
    \/ N_Axes
    \/ N_IPlot
    \/ N_Display
    \/ N_Pip
    \/ N_Publish
    \/ P_Load
    \/ P_Predict
    \/ P_Traces
    \/ P_IPlot
    \/ LibraryCallRaises

Spec == Init /\ [][Next]_vars

----------------------------------------------------------------------------
(* Properties *)

\* where control can be once the loop is over
AfterLoop ==
    {"diff", "print", "subplots", "non_nested_scores_line", "append1",
     "nested_line", "append2", "layout", "difference_plot", "append3", "axes",
     "iplot", "display", "pip", "publish", "done"}

Ran(name) == \E k \in DOMAIN steps : steps[k].stmt = name

\* the rows an inner grid search was fitted and validated on
InnerRows(search) ==
    UNION {search.folds[f].train \cup search.folds[f].test : f \in DOMAIN search.folds}

\* C1: in every trial, for every outer fold of cross_val_score, the inner grid
\* search that selects the combination used to score the fold's test rows is
\* fitted and validated on the fold's training rows only; no test row of the
\* outer fold takes part in the selection.
C1_InnerSearchOnTrainingRowsOnly ==
    outer_folds # <<>> =>
        \A f \in DOMAIN outer_folds :
            LET o == outer_folds[f]
            IN /\ o.test # {}
               /\ InnerRows(o.search) = o.train
               /\ InnerRows(o.search) \cap o.test = {}
               /\ o.score = Accuracy(data_id, o.search.best_params_, o.train, o.test)

C1_Witness ==
    /\ pc = "for" /\ i = 2
    /\ Len(outer_folds) = n_splits
    /\ \A f \in DOMAIN outer_folds :
          /\ Cardinality(outer_folds[f].test) >= 2
          /\ InnerRows(outer_folds[f].search) = outer_folds[f].train

\* the rows a candidate classified correctly over all validation folds,
\* divided by the rows validated: its mean validation score with each inner
\* fold weighing as many rows as it validates
ValidationMean(search, c) ==
    Frac(ISum([f \in 1..n_splits |->
                  (search.split_test_score[c][f][1] * search.test_sizes[f])
                      \div search.split_test_score[c][f][2]]),
         ISum(search.test_sizes))

\* four times the value v equals the sum of the four fractions of s: v is
\* the plain average of s
IsMeanOfFour(v, s) ==
    v[1] * 4 * s[1][2] * s[2][2] * s[3][2] * s[4][2] =
        v[2] * ( s[1][1] * s[2][2] * s[3][2] * s[4][2]
               + s[2][1] * s[1][2] * s[3][2] * s[4][2]
               + s[3][1] * s[1][2] * s[2][2] * s[4][2]
               + s[4][1] * s[1][2] * s[2][2] * s[3][2] )

\* the plain average of a candidate's 4 inner-fold scores
FoldMean(search, c) ==
    Frac(  search.split_test_score[c][1][1] * search.split_test_score[c][2][2]
             * search.split_test_score[c][3][2] * search.split_test_score[c][4][2]
         + search.split_test_score[c][2][1] * search.split_test_score[c][1][2]
             * search.split_test_score[c][3][2] * search.split_test_score[c][4][2]
         + search.split_test_score[c][3][1] * search.split_test_score[c][1][2]
             * search.split_test_score[c][2][2] * search.split_test_score[c][4][2]
         + search.split_test_score[c][4][1] * search.split_test_score[c][1][2]
             * search.split_test_score[c][2][2] * search.split_test_score[c][3][2],
         4 * search.split_test_score[c][1][2] * search.split_test_score[c][2][2]
           * search.split_test_score[c][3][2] * search.split_test_score[c][4][2])

AllCombinations == {[C |-> a, gamma |-> g] : a \in {1, 10, 100}, g \in {1, 10}}

\* every combination of p_grid has a score on every inner fold
Exhaustive(search) ==
    /\ {ParameterGrid[c] : c \in DOMAIN search.split_test_score} = AllCombinations
    /\ Cardinality(DOMAIN search.split_test_score) = 6
    /\ \A c \in DOMAIN search.split_test_score :
          DOMAIN search.split_test_score[c] = 1..4

\* C2 as stated: in every trial the grid search scores each of the 6
\* combinations on each of the 4 inner folds, and non_nested_scores[i] =
\* clf.best_score_ is the largest, over the 6 combinations, of the average of
\* the combination's 4 inner-fold scores.
C2_BestIsMaxOfFoldMeans ==
    (doc = "nested" /\ pc = "nested") =>
        /\ Exhaustive(clf)
        /\ non_nested_scores[i] = clf.best_score_
        /\ \E c \in DOMAIN clf.split_test_score :
              FoldMean(clf, c) = non_nested_scores[i]
        /\ \A c \in DOMAIN clf.split_test_score :
              RLe(FoldMean(clf, c), non_nested_scores[i])

\* the scores of a candidate that misclassifies e[f] rows of inner fold f
\* when the 150 rows of iris are cut into 4 folds, and the folds' sizes
IrisFoldSizes == [f \in 1..n_splits |-> FoldSize(IrisRows, n_splits, f)]
IrisFoldScores(e) ==
    [f \in 1..n_splits |-> Frac(IrisFoldSizes[f] - e[f], IrisFoldSizes[f])]

\* on the fold sizes of iris (38, 38, 37, 37) the score GridSearchCV gives a
\* candidate is the plain average of its fold scores only if it misclassifies
\* no row (candidates with up to 2 errors per fold)
WeightedDiffersOnIrisFolds ==
    \A e \in [1..n_splits -> 0..2] :
        IsMeanOfFour(MeanTestScore(IrisFoldScores(e), IrisFoldSizes),
                     IrisFoldScores(e))
            <=> \A f \in 1..n_splits : e[f] = 0

\* C2, amended: in every trial the grid search scores each of the 6
\* combinations on each of the 4 inner folds, and non_nested_scores[i] =
\* clf.best_score_ is the largest, over the 6 combinations, of the
\* combination's mean validation score, the mean being weighted by the number
\* of rows each inner fold validates (correctly classified validation rows
\* over all rows); no combination has a strictly higher such mean. It is the
\* largest plain average of the 4 fold scores when the folds have equal size.
C2_BestIsMaxOfSizeWeightedMeans ==
    /\ WeightedDiffersOnIrisFolds
    /\ (doc = "nested" /\ pc = "nested") =>
          /\ Exhaustive(clf)
          /\ non_nested_scores[i] = clf.best_score_
          /\ \E c \in DOMAIN clf.split_test_score :
                ValidationMean(clf, c) = non_nested_scores[i]
          /\ \A c \in DOMAIN clf.split_test_score :
                RLe(ValidationMean(clf, c), non_nested_scores[i])
          /\ (\A f, g \in 1..n_splits : clf.test_sizes[f] = clf.test_sizes[g]) =>
                /\ \E c \in DOMAIN clf.split_test_score :
                      FoldMean(clf, c) = non_nested_scores[i]
                /\ \A c \in DOMAIN clf.split_test_score :
                      RLe(FoldMean(clf, c), non_nested_scores[i])

\* a search over folds of unequal size whose best score is the average of no
\* combination's fold scores and is below the largest such average
C2_Witness ==
    /\ doc = "nested" /\ pc = "nested"
    /\ clf.best_index_ > 1
    /\ \E f, g \in 1..n_splits : clf.test_sizes[f] # clf.test_sizes[g]
    /\ \E c \in DOMAIN clf.split_test_score :
          RLt(ValidationMean(clf, c), non_nested_scores[i])
    /\ \A c \in DOMAIN clf.split_test_score :
          FoldMean(clf, c) # non_nested_scores[i]

\* C3: for any row count of at least 10, cross_val_predict(cv=10) puts every
\* row in the test fold of exactly one of the 10 folds, predicted has one
\* prediction per entry of y, entry x being the prediction for row x, and
\* trace1 pairs y with predicted index by index.
C3_OnePredictionPerTarget ==
    (doc = "cvpredict" /\ n_samples >= n_folds) =>
        LET folds == KFoldSplit(1..n_samples, n_folds, FALSE, 0)
        IN /\ \A x \in 1..n_samples :
                 Cardinality({f \in 1..n_folds : x \in folds[f].test}) = 1
           /\ Ran("predict") /\ pc # "error" =>
                 /\ Len(predicted) = Len(Target(n_samples))
                 /\ \A x \in DOMAIN predicted :
                       /\ predicted[x].row = x
                       /\ x \in folds[predicted[x].fold].test
           /\ fig # <<>> =>
                 /\ DOMAIN fig.data[1].x = DOMAIN fig.data[1].y
                 /\ \A x \in DOMAIN fig.data[1].x :
                       fig.data[1].x[x].row = fig.data[1].y[x].row

C3_Witness ==
    /\ doc = "cvpredict" /\ pc = "done"
    /\ n_samples > n_folds
    /\ Len(predicted) = n_samples
    /\ Len(fig.data[1].y) = n_samples

TrialSteps == SelectSeq(steps, LAMBDA s : s.trial >= 0)

ExpectedTrialSteps ==
    [k \in 1..(3 * 30) |->
        Stmt(<<"clf", "search", "nested">>[((k - 1) % 3) + 1], (k - 1) \div 3)]

IsPrefix(s, t) == Len(s) <= Len(t) /\ \A k \in DOMAIN s : s[k] = t[k]

\* C4: the loop body runs once for each i in 0..29, in increasing order, with
\* no index repeated or skipped and no early exit: every pass of the loop head
\* either starts the next trial (i + 1 <= 29) or, after trial 29, hands
\* control to the computation of score_difference, which is reached only
\* after exactly the 30 trials.
C4_ThirtyTrialsThenDiff ==
    /\ [](doc = "nested" => IsPrefix(TrialSteps, ExpectedTrialSteps))
    /\ [](doc = "nested" /\ (pc = "diff" \/ Ran("diff")) =>
             TrialSteps = ExpectedTrialSteps /\ i = 29)
    /\ [][doc = "nested" /\ pc = "for" =>
             IF i < 29 THEN pc' = "clf" /\ i' = i + 1
                       ELSE pc' = "diff" /\ i' = i]_vars

C4_Witness ==
    /\ doc = "nested" /\ pc = "diff"
    /\ Len(TrialSteps) = 90
    /\ i = 29

\* the statements of the notebook before and after the loop, and those of the
\* page, in the order of the documents
BeforeLoop == <<"load", "svr", "non_nested_zeros", "nested_zeros">>
LoopBody == <<"clf", "search", "nested">>
Render == <<"subplots", "non_nested_scores_line", "append1", "nested_line",
            "append2", "layout", "difference_plot", "append3", "axes", "iplot">>
AfterTrials == <<"diff", "print">> \o Render \o <<"display", "pip", "publish">>
Page == <<"load", "predict", "traces", "iplot">>

IndexOf(seq, v) == CHOOSE k \in DOMAIN seq : seq[k] = v

\* the place of a statement in the order load, fit/evaluate, render, exit
Rank(s) ==
    IF doc = "cvpredict" THEN IndexOf(Page, s.stmt)
    ELSE IF s.trial >= 0
         THEN Len(BeforeLoop) + 3 * s.trial + IndexOf(LoopBody, s.stmt)
    ELSE IF \E k \in DOMAIN BeforeLoop : BeforeLoop[k] = s.stmt
         THEN IndexOf(BeforeLoop, s.stmt)
    ELSE Len(BeforeLoop) + 3 * 30 + IndexOf(AfterTrials, s.stmt)

\* C5: in both documents the statements run in the order load, fit/evaluate,
\* render, exit: the dataset is loaded before any fit, the chart is rendered
\* only after every fit/evaluate step has completed (in the notebook after all
\* 30 trials have written their scores), and no statement runs twice.
C5_LinearOrder ==
    /\ \A a, b \in DOMAIN steps : a < b => Rank(steps[a]) < Rank(steps[b])
    /\ steps # <<>> => steps[1].stmt = "load"
    /\ Len(steps) > 1 => loaded
    /\ (Ran("clf") \/ Ran("predict")) => loaded
    /\ (Ran("subplots") /\ doc = "nested") =>
          \A j \in 0..29 :
              /\ writes["non_nested_scores"][j] = 1
              /\ writes["nested_scores"][j] = 1
              /\ writes["score_difference"][j] = 1
    /\ (Ran("iplot") /\ doc = "nested") =>
          /\ \A k \in 1..(Len(Render) - 1) : Ran(Render[k])
          /\ Len(fig.data) = 3
    /\ (Ran("iplot") /\ doc = "cvpredict") =>
          /\ Len(predicted) = n_samples
          /\ Ran("traces")
    /\ pc = "done" => Ran("iplot")

C5_Witness ==
    /\ doc = "nested" /\ pc = "done"
    /\ Len(steps) = 109
    /\ steps[97].stmt = "subplots" /\ steps[106].stmt = "iplot"
    /\ steps[109].stmt = "publish"

Count(seq, v) == Cardinality({k \in DOMAIN seq : seq[k] = v})

\* C7 as stated: over a whole run of either document exactly one network
\* operation occurs, the py.iplot call.
C7_SingleNetworkOperation ==
    pc = "done" => net_ops = <<"plotly">>

\* C7, amended: a run of either document makes exactly one network call to
\* the plotting service, the py.iplot call, and nothing touches the network
\* before it; the page performs no other network operation, while the
\* notebook's publish cell afterwards performs a second one (pip install of a
\* git URL).
C7_OnePlottingCallPlusPipInstall ==
    /\ ~Ran("iplot") => net_ops = <<>>
    /\ Count(net_ops, "plotly") <= 1
    /\ (Ran("iplot") /\ failed_at # "iplot") =>
          Count(net_ops, "plotly") = 1 /\ net_ops[1] = "plotly"
    /\ (pc = "done" /\ doc = "cvpredict") => net_ops = <<"plotly">>
    /\ (pc = "done" /\ doc = "nested") => net_ops = <<"plotly", "pip">>

C7_Witness ==
    /\ pc = "done" /\ doc = "nested"
    /\ Len(net_ops) = 2
    /\ net_ops[2] = "pip"

\* every entry of the three score arrays has been assigned its score once
AllAssignedOnce ==
    \A a \in ScoreArrays : \A j \in 0..29 : writes[a][j] = 1

\* C8 as stated: every entry of the three arrays is assigned its score exactly
\* once and each array is read by exactly one later statement.
C8_ProducedOnceReadOnce ==
    (doc = "nested" /\ pc = "done") =>
        /\ AllAssignedOnce
        /\ \A a \in ScoreArrays : Cardinality(reads[a]) = 1

\* C8, amended: every entry of the three arrays is assigned its score exactly
\* once, and each array, once produced, is read by exactly two later
\* statements: non_nested_scores and nested_scores by the score_difference
\* computation and by their Scatter trace, score_difference by the print and
\* by the Bar trace; no array is read before it is complete.
C8_ProducedOnceReadTwice ==
    doc = "nested" =>
        /\ \A a \in ScoreArrays : \A j \in 0..29 : writes[a][j] <= 1
        /\ \A a \in ScoreArrays :
              reads[a] # {} => \A j \in 0..29 : writes[a][j] = 1
        /\ pc = "done" =>
              /\ AllAssignedOnce
              /\ reads["non_nested_scores"] =
                    {"score_difference =", "non_nested_scores_line ="}
              /\ reads["nested_scores"] = {"score_difference =", "nested_line ="}
              /\ reads["score_difference"] = {"print", "difference_plot ="}

C8_Witness ==
    /\ doc = "nested" /\ pc = "done"
    /\ AllAssignedOnce
    /\ \A a \in ScoreArrays : Cardinality(reads[a]) = 2

\* C9 as stated: when a library call raises, the run stops there, the call is
\* not retried, no later step runs, and the score entries of the trials not
\* yet completed (the failing trial included) still hold 0.
C9_UncompletedTrialsStayZero ==
    (pc = "error" /\ failed_at \in InLoop) =>
        /\ Count(steps, Stmt(failed_at, i)) = 1
        /\ ~Ran("iplot")
        /\ \A j \in i..29 :
              non_nested_scores[j] = Zero /\ nested_scores[j] = Zero

\* what holds once a library call has raised
StoppedAtFailure ==
    /\ failed_at # "none"
    /\ steps[Len(steps)].stmt = failed_at
    /\ Cardinality({k \in DOMAIN steps : steps[k].stmt = failed_at
                                          /\ steps[k].trial = steps[Len(steps)].trial}) = 1
    /\ failed_at \notin {"iplot", "display", "publish"} =>
          net_ops = <<>> /\ ~Ran("iplot")
    /\ failed_at = "display" => net_ops = <<"plotly">>
    /\ (failed_at = "publish" /\ doc = "nested") => net_ops = <<"plotly", "pip">>
    /\ (doc = "nested" /\ ~Ran("subplots")) \/ (doc = "cvpredict" /\ ~Ran("traces"))
          => fig = <<>>
    /\ failed_at \in InLoop =>
          /\ steps[Len(steps)].trial = i
          /\ score_difference = <<>>
          /\ \A j \in (i + 1)..29 :
                non_nested_scores[j] = Zero /\ nested_scores[j] = Zero
          /\ nested_scores[i] = Zero
          /\ failed_at \in {"clf", "search"} => non_nested_scores[i] = Zero
          /\ failed_at = "nested" =>
                /\ non_nested_scores[i] = clf.best_score_
                /\ writes["non_nested_scores"][i] = 1

\* C9, amended: when a library call raises, the error propagates and the run
\* stops at that statement: the call is not retried, no later statement (in
\* particular no chart rendering) runs, and the score entries of the trials
\* not yet started, and those the failing trial had not yet assigned, still
\* hold 0; non_nested_scores[i] of a trial whose cross_val_score call raises
\* keeps the score assigned before the call.
C9_ErrorStopsTheRun ==
    /\ [](failed_at # "none" => pc = "error")
    /\ [](pc = "error" => StoppedAtFailure)
    /\ [][pc # "error"]_vars

C9_Witness ==
    /\ pc = "error" /\ failed_at = "nested" /\ i = 3
    /\ non_nested_scores[3] # Zero
    /\ nested_scores[3] = Zero

\* C10: in every trial outer_cv splits the rows into exactly 4 test folds with
\* every row in exactly one of them, cross_val_score returns one score per
\* outer fold, and nested_scores[i] is the arithmetic mean of those 4 scores.
C10_NestedScoreIsMeanOverOuterFolds ==
    (doc = "nested" /\ pc = "for" /\ i >= 0) =>
        /\ Len(outer_folds) = 4
        /\ \A x \in 1..n_samples :
              Cardinality({f \in DOMAIN outer_folds : x \in outer_folds[f].test}) = 1
        /\ \A f \in DOMAIN outer_folds :
              /\ outer_folds[f].test \subseteq 1..n_samples
              /\ outer_folds[f].train = (1..n_samples) \ outer_folds[f].test
        /\ Len(nested_score) = 4
        /\ \A f \in DOMAIN outer_folds : nested_score[f] = outer_folds[f].score
        /\ IsMeanOfFour(nested_scores[i], nested_score)

C10_Witness ==
    /\ doc = "nested" /\ pc = "for" /\ i = 4
    /\ n_samples = 9
    /\ \E f, g \in DOMAIN nested_score : nested_score[f] # nested_score[g]
    /\ nested_scores[4] # Zero

\* the two scores of trial j, computed from the dataset with the seed j
TrialScoresWithSeed(j) ==
    LET search == GridSearchCV_fit(data_id, 1..n_samples, j)
        outer  == cross_val_score(data_id, 1..n_samples, j)
    IN [non_nested |-> search.best_score_,
        nested     |-> [f \in DOMAIN outer |-> outer[f].score]]

\* d is the difference a - b of two fractions
IsDifference(d, a, b) ==
    d[1] * a[2] * b[2] = d[2] * (a[1] * b[2] - b[1] * a[2])

\* C11: once the loop is over, score_difference has exactly NUM_TRIALS
\* entries, entry j is non_nested_scores[j] - nested_scores[j], both operands
\* are the scores of trial j (grid search and cross_val_score run with
\* random_state = j), and the bar chart plots entry j at x = j.
C11_DifferenceOfSameTrialScores ==
    doc = "nested" =>
        /\ pc \in (AfterLoop \ {"diff"}) => score_difference # <<>>
        /\ score_difference # <<>> =>
              /\ DOMAIN score_difference = 0..(NUM_TRIALS - 1)
              /\ \A j \in 0..(NUM_TRIALS - 1) :
                    /\ IsDifference(score_difference[j],
                                    non_nested_scores[j], nested_scores[j])
                    /\ score_difference[j] =
                          Frac(score_difference[j][1], score_difference[j][2])
              /\ pc = "print" =>
                    \A j \in 0..(NUM_TRIALS - 1) :
                        LET t == TrialScoresWithSeed(j)
                        IN /\ non_nested_scores[j] = t.non_nested
                           /\ IsMeanOfFour(nested_scores[j], t.nested)
        /\ Ran("append3") /\ failed_at # "append3" =>
              /\ Len(fig.data) = 3
              /\ DOMAIN fig.data[3].x = 0..(NUM_TRIALS - 1)
              /\ DOMAIN fig.data[3].y = DOMAIN fig.data[3].x
              /\ \A j \in 0..(NUM_TRIALS - 1) :
                    /\ fig.data[3].x[j] = j
                    /\ IsDifference(fig.data[3].y[j],
                                    non_nested_scores[j], nested_scores[j])

C11_Witness ==
    /\ doc = "nested" /\ pc = "done"
    /\ Len(fig.data) = 3
    /\ \E j, k \in 0..(NUM_TRIALS - 1) :
          /\ RLt(Zero, fig.data[3].y[j])
          /\ RLt(fig.data[3].y[k], Zero)
          /\ fig.data[3].y[j] = score_difference[j]
          /\ fig.data[3].y[k] = score_difference[k]
          /\ non_nested_scores[j] # non_nested_scores[k]

====
